---- MODULE Spec2Model ----
(***************************************************************************)
(* The album service of src/main.go: main and initDB (startup), the three  *)
(* gin handlers (GET /health, POST /albums, GET /albums/:id) and the MySQL *)
(* table Albums they share.  Text is a sequence of one-character strings,  *)
(* binary data a sequence of bytes.                                        *)
(***************************************************************************)
EXTENDS Integers, Sequences, FiniteSets, TLC

VARIABLES
    mainPc,       \* position of main(): initDB, ping, schema, routes, run, listening, exited, fatal
    dsn,          \* os.Getenv("DB_DSN")
    db,           \* the global *sql.DB: "nil", "open", "closed"
    routes,       \* the routes registered on the gin engine
    dbUp,         \* whether the MySQL server answers
    sqlMode,      \* the server's sql_mode: "strict" or "lenient"
    tableExists,  \* whether table Albums exists
    table,        \* the rows of Albums: id -> [artist, title, year, image]
    autoInc,      \* the AUTO_INCREMENT counter of Albums
    req,          \* per connection: the request being handled and its response
    served,       \* number of requests accepted so far
    initSteps,    \* history: the steps of initDB that succeeded
    ledger,       \* history: id -> [rid, row] as written by the INSERT
    acked         \* history: the 201 responses sent, with what was submitted

vars == <<mainPc, dsn, db, routes, dbUp, sqlMode, tableExists, table, autoInc,
          req, served, initSteps, ledger, acked>>

-----------------------------------------------------------------------------
(* Bounds and program constants *)

MaxRequests == 2

VarcharMax == 255

Conns == {"c1", "c2"}

-----------------------------------------------------------------------------
(* Text, numbers and encodings *)

DigitChars == {"0", "1", "2", "3", "4", "5", "6", "7", "8", "9"}

DigitVal(c) ==
    CASE c = "0" -> 0 [] c = "1" -> 1 [] c = "2" -> 2 [] c = "3" -> 3
      [] c = "4" -> 4 [] c = "5" -> 5 [] c = "6" -> 6 [] c = "7" -> 7
      [] c = "8" -> 8 [] c = "9" -> 9

RECURSIVE DecimalValue(_)
DecimalValue(ds) ==
    IF ds = <<>> THEN 0
    ELSE 10 * DecimalValue(SubSeq(ds, 1, Len(ds) - 1)) + DigitVal(ds[Len(ds)])

\* strconv.Atoi: an optional sign, then one or more decimal digits.
\* (The inputs below stay far inside the int range, so no range error.)
Atoi(s) ==
    LET signed == s # <<>> /\ s[1] \in {"+", "-"}
        digits == IF signed THEN Tail(s) ELSE s
    IN  IF digits = <<>> \/ \E i \in 1..Len(digits) : digits[i] \notin DigitChars
        THEN [err |-> TRUE, val |-> 0]
        ELSE [err |-> FALSE,
              val |-> IF signed /\ s[1] = "-" THEN 0 - DecimalValue(digits)
                      ELSE DecimalValue(digits)]

\* encoding/json writes a []byte as standard base64: 3 bytes -> 4 sextets,
\* the tail padded with '=' (written 64 here, the sextets being 0..63).
RECURSIVE Base64Encode(_)
Base64Encode(bs) ==
    IF bs = <<>> THEN <<>>
    ELSE IF Len(bs) = 1 THEN
        <<bs[1] \div 4, (bs[1] % 4) * 16, 64, 64>>
    ELSE IF Len(bs) = 2 THEN
        <<bs[1] \div 4, (bs[1] % 4) * 16 + bs[2] \div 16, (bs[2] % 16) * 4, 64>>
    ELSE
        <<bs[1] \div 4, (bs[1] % 4) * 16 + bs[2] \div 16,
          (bs[2] % 16) * 4 + bs[3] \div 64, bs[3] % 64>>
        \o Base64Encode(SubSeq(bs, 4, Len(bs)))

\* What a client gets back from the base64 text.
RECURSIVE Base64Decode(_)
Base64Decode(ss) ==
    IF ss = <<>> THEN <<>>
    ELSE LET b1 == ss[1] * 4 + ss[2] \div 16
             b2 == (ss[2] % 16) * 16 + ss[3] \div 4
             b3 == (ss[3] % 4) * 64 + ss[4]
         IN  (IF ss[3] = 64 THEN <<b1>>
              ELSE IF ss[4] = 64 THEN <<b1, b2>>
              ELSE <<b1, b2, b3>>)
             \o Base64Decode(SubSeq(ss, 5, Len(ss)))

-----------------------------------------------------------------------------
(* Requests the clients send *)

Radiohead == <<"R", "a", "d">>
OKComputer == <<"O", "K">>
LongText == [i \in 1..(VarcharMax + 1) |-> "x"]
Cover == <<137, 80, 78, 71>>

BaseForm ==
    [parseOk |-> TRUE,
     values  |-> [artist |-> Radiohead, title |-> OKComputer,
                  year |-> <<"1", "9", "9", "7">>],
     files   |-> [image |-> [openOk |-> TRUE, readOk |-> TRUE, bytes |-> Cover]]]

\* A second album, every part different (its year carries a sign).
SecondForm ==
    [parseOk |-> TRUE,
     values  |-> [artist |-> <<"B">>, title |-> <<"T">>, year |-> <<"+", "7">>],
     files   |-> [image |-> [openOk |-> TRUE, readOk |-> TRUE, bytes |-> <<255, 0>>]]]

\* The two albums, and the first with one part changed or left out.
CreateForms ==
    {BaseForm, SecondForm, [BaseForm EXCEPT !.parseOk = FALSE]}
    \cup {[BaseForm EXCEPT !.values.artist = LongText],
          [BaseForm EXCEPT !.values = [k \in {"title", "year"} |-> BaseForm.values[k]]],
          [BaseForm EXCEPT !.values.title = <<>>]}
    \cup {[BaseForm EXCEPT !.values.year = y] :
            y \in {<<>>, <<"0">>, <<"-", "5">>, <<"1", "9", "x">>}}
    \cup {[BaseForm EXCEPT !.files = <<>>],
          [BaseForm EXCEPT !.files.image.openOk = FALSE],
          [BaseForm EXCEPT !.files.image.readOk = FALSE],
          [BaseForm EXCEPT !.files.image.bytes = <<>>]}

\* The :id path segment of GET /albums/:id (never empty: the route needs one).
IdParams ==
    {<<"1">>, <<"2">>, <<"+", "1">>, <<"0">>, <<"-", "1">>, <<"a", "b", "c">>}

-----------------------------------------------------------------------------
(* Responses *)

\* c.JSON(status, body)
JSON(status, body) == [status |-> status, body |-> body]

ErrorBody(msg) == [error |-> msg]

\* json.Marshal of an Album: image is base64 text and, being omitempty,
\* is left out when empty (id is never 0 for a stored row).
AlbumJSON(album) ==
    IF album.Image = <<>>
    THEN [id |-> album.ID, artist |-> album.Artist, title |-> album.Title,
          year |-> album.Year]
    ELSE [id |-> album.ID, artist |-> album.Artist, title |-> album.Title,
          year |-> album.Year, image |-> Base64Encode(album.Image)]

\* a health check that answers for the database too
HealthResponseDbCheck ==
    IF dbUp THEN JSON(200, [status |-> "ok"])
    ELSE JSON(503, [status |-> "database unreachable"])

HealthResponse == JSON(200, [status |-> "ok"])

-----------------------------------------------------------------------------
(* The form accessors *)

\* Request.FormValue: "" when the field is absent
FormValue(form, key) ==
    IF key \in DOMAIN form.values THEN form.values[key] ELSE <<>>

\* c.FormFile: an error when the part is absent
FormFileMissing(form, key) == key \notin DOMAIN form.files

\* the year test with < for <=
YearInvalidOffByOne(yearStr) == Atoi(yearStr).err \/ Atoi(yearStr).val < 0

YearInvalid(yearStr) == Atoi(yearStr).err \/ Atoi(yearStr).val <= 0

RequiredMissing(artist, title, yearStr) ==
    artist = <<>> \/ title = <<>> \/ yearStr = <<>>

\* the image read with the error of io.ReadAll dropped
ReadImageUnchecked(file) ==
    IF ~file.openOk THEN [err |-> "Failed to process image file", data |-> <<>>]
    ELSE [err |-> "nil", data |-> file.bytes]

\* file.Open() then io.ReadAll: the error response, or "nil" and the bytes
ReadImage(file) ==
    IF ~file.openOk THEN [err |-> "Failed to process image file", data |-> <<>>]
    ELSE IF ~file.readOk THEN [err |-> "Failed to read image file", data |-> <<>>]
    ELSE [err |-> "nil", data |-> file.bytes]

\* createAlbum up to the INSERT: the early response, or the values to insert
CreateAlbumParse(form) ==
    LET artist  == FormValue(form, "artist")
        title   == FormValue(form, "title")
        yearStr == FormValue(form, "year")
    IN  IF ~form.parseOk
        THEN [ok |-> FALSE, resp |-> JSON(400, ErrorBody("Invalid form data"))]
        ELSE IF RequiredMissing(artist, title, yearStr)
        THEN [ok |-> FALSE,
              resp |-> JSON(400, ErrorBody("Artist, title, and year are required"))]
        ELSE IF YearInvalid(yearStr)
        THEN [ok |-> FALSE,
              resp |-> JSON(400, ErrorBody("Year must be a positive integer"))]
        ELSE IF FormFileMissing(form, "image")
        THEN [ok |-> FALSE, resp |-> JSON(400, ErrorBody("Image is required"))]
        ELSE LET img == ReadImage(form.files["image"])
             IN  IF img.err # "nil"
                 THEN [ok |-> FALSE, resp |-> JSON(500, ErrorBody(img.err))]
                 ELSE [ok |-> TRUE,
                       args |-> [artist |-> artist, title |-> title,
                                 year |-> Atoi(yearStr).val, image |-> img.data]]

-----------------------------------------------------------------------------
(* The database *)

\* A VARCHAR(255) NOT NULL column taking a value: too long a value is an
\* error under a strict sql_mode and is cut to the column width otherwise.
StoreVarchar(s) ==
    IF Len(s) <= VarcharMax THEN [err |-> FALSE, val |-> s]
    ELSE IF sqlMode = "strict" THEN [err |-> TRUE, val |-> <<>>]
    ELSE [err |-> FALSE, val |-> SubSeq(s, 1, VarcharMax)]

\* INSERT INTO Albums (artist, title, year, image) VALUES (?, ?, ?, ?):
\* the error, or the row stored
InsertRow(args) ==
    LET a == StoreVarchar(args.artist)
        t == StoreVarchar(args.title)
    IN  IF ~dbUp \/ ~tableExists THEN [err |-> "conn"]
        ELSE IF a.err \/ t.err THEN [err |-> "1406"]
        ELSE [err |-> "nil",
              row |-> [artist |-> a.val, title |-> t.val, year |-> args.year,
                       image |-> args.image]]

\* an id column whose counter does not advance
NextAutoIncStuck(n) == n

\* id INT AUTO_INCREMENT PRIMARY KEY: the counter after handing out id n
NextAutoInc(n) == n + 1

\* the id taken from the table's latest row instead of this statement's result
LastInsertIdOfTable(result) == autoInc - 1

\* result.LastInsertId(): the id the server reported for this statement
LastInsertId(result) == result.insertId

\* SELECT id, artist, title, year, image FROM Albums WHERE id = ?, then Scan
QueryRow(id) ==
    IF ~dbUp \/ ~tableExists THEN [err |-> "conn"]
    ELSE IF id \notin DOMAIN table THEN [err |-> "ErrNoRows"]
    ELSE [err |-> "nil",
          album |-> [ID |-> id, Artist |-> table[id].artist,
                     Title |-> table[id].title, Year |-> table[id].year,
                     Image |-> table[id].image]]

\* getAlbum without the sql.ErrNoRows case
GetAlbumResponseNoRowsAsError(q) ==
    IF q.err # "nil" THEN JSON(500, ErrorBody("Database error"))
    ELSE JSON(200, AlbumJSON(q.album))

\* getAlbum's answer to the outcome of the query
GetAlbumResponse(q) ==
    IF q.err = "ErrNoRows" THEN JSON(404, ErrorBody("Album not found"))
    ELSE IF q.err # "nil" THEN JSON(500, ErrorBody("Database error"))
    ELSE JSON(200, AlbumJSON(q.album))

-----------------------------------------------------------------------------
(* Startup: main and initDB *)

DSNs == {<<>>, <<"n", "o">>, <<"u", "@", "t", "c", "p", "(", "d", "b", ")", "/", "a">>}

\* mysql.ParseDSN wants the '/' that precedes the database name
DSNParses(s) == \E i \in 1..Len(s) : s[i] = "/"

IdleSlot == [pc |-> "idle"]

Init ==
    /\ mainPc = "initDB"
    /\ dsn \in DSNs
    /\ db = "nil"
    /\ routes = {}
    /\ dbUp \in BOOLEAN
    /\ sqlMode \in {"strict", "lenient"}
    /\ tableExists \in BOOLEAN
    /\ table = <<>>
    /\ autoInc = 1
    /\ req = [c \in Conns |-> IdleSlot]
    /\ served = 0
    /\ initSteps = {}
    /\ ledger = <<>>
    /\ acked = {}

\* initDB going on after a failed ping
AfterPingIgnored(ok) == "schema"

\* where initDB goes after db.Ping()
AfterPing(ok) == IF ok THEN "schema" ELSE "fatal"

\* where initDB goes after CREATE TABLE IF NOT EXISTS
AfterCreateTable(ok) == IF ok THEN "routes" ELSE "fatal"

\* lines 29-38: DB_DSN must be set and sql.Open must accept it
InitDBOpen ==
    /\ mainPc = "initDB"
    /\ IF dsn = <<>> \/ ~DSNParses(dsn)
       THEN /\ mainPc' = "fatal"
            /\ UNCHANGED <<db, initSteps>>
       ELSE /\ mainPc' = "ping"
            /\ db' = "open"
            /\ initSteps' = initSteps \cup {"dsn", "open"}
    /\ UNCHANGED <<dsn, routes, dbUp, sqlMode, tableExists, table, autoInc, req,
                   served, ledger, acked>>

\* lines 41-48: db.Ping(), then the pool settings
InitDBPing ==
    /\ mainPc = "ping"
    /\ mainPc' = AfterPing(dbUp)
    /\ initSteps' = IF dbUp THEN initSteps \cup {"ping"} ELSE initSteps
    /\ UNCHANGED <<dsn, db, routes, dbUp, sqlMode, tableExists, table, autoInc,
                   req, served, ledger, acked>>

\* lines 51-62: CREATE TABLE IF NOT EXISTS Albums
InitDBCreateTable ==
    /\ mainPc = "schema"
    /\ mainPc' = AfterCreateTable(dbUp)
    /\ tableExists' = (tableExists \/ dbUp)
    /\ initSteps' = IF dbUp THEN initSteps \cup {"schema"} ELSE initSteps
    /\ UNCHANGED <<dsn, db, routes, dbUp, sqlMode, table, autoInc, req, served,
                   ledger, acked>>

\* lines 154-163: the gin engine and its three routes
MainBindRoutes ==
    /\ mainPc = "routes"
    /\ routes' = {"GET /health", "POST /albums", "GET /albums/:id"}
    /\ mainPc' = "run"
    /\ UNCHANGED <<dsn, db, dbUp, sqlMode, tableExists, table, autoInc, req,
                   served, initSteps, ledger, acked>>

\* lines 166-172: r.Run starts listening
MainRun ==
    /\ mainPc = "run"
    /\ mainPc' = "listening"
    /\ UNCHANGED <<dsn, db, routes, dbUp, sqlMode, tableExists, table, autoInc,
                   req, served, initSteps, ledger, acked>>

\* r.Run returns, main returns and the deferred db.Close() runs
MainReturn ==
    /\ mainPc = "listening"
    /\ mainPc' = "exited"
    /\ db' = "closed"
    /\ UNCHANGED <<dsn, routes, dbUp, sqlMode, tableExists, table, autoInc, req,
                   served, initSteps, ledger, acked>>

\* The MySQL server stops answering, or answers again
DatabaseFails ==
    /\ dbUp
    /\ dbUp' = FALSE
    /\ UNCHANGED <<mainPc, dsn, db, routes, sqlMode, tableExists, table, autoInc,
                   req, served, initSteps, ledger, acked>>

DatabaseRecovers ==
    /\ ~dbUp
    /\ dbUp' = TRUE
    /\ UNCHANGED <<mainPc, dsn, db, routes, sqlMode, tableExists, table, autoInc,
                   req, served, initSteps, ledger, acked>>

-----------------------------------------------------------------------------
(* The handlers *)

\* the server dispatches a request on connection c to a registered route
\* (a connection takes its next request once the last was answered)
Accepts(c, route) ==
    /\ mainPc = "listening"
    /\ route \in routes
    /\ req[c].pc \in {"idle", "done"}
    /\ served < MaxRequests

\* GET /health (lines 157-159)
Health(c) ==
    /\ Accepts(c, "GET /health")
    /\ req' = [req EXCEPT ![c] =
                 [pc |-> "done", rid |-> served + 1, kind |-> "health",
                  err |-> "nil", resp |-> HealthResponse]]
    /\ served' = served + 1
    /\ UNCHANGED <<mainPc, dsn, db, routes, dbUp, sqlMode, tableExists, table,
                   autoInc, initSteps, ledger, acked>>

\* POST /albums, lines 66-108: parse, validate, read the image
CreateAlbumBegin(c, form) ==
    /\ Accepts(c, "POST /albums")
    /\ LET p == CreateAlbumParse(form)
       IN  req' = [req EXCEPT ![c] =
                     IF p.ok
                     THEN [pc |-> "exec", rid |-> served + 1, kind |-> "create",
                           form |-> form, args |-> p.args]
                     ELSE [pc |-> "done", rid |-> served + 1, kind |-> "create",
                           form |-> form, err |-> "nil", resp |-> p.resp]]
    /\ served' = served + 1
    /\ UNCHANGED <<mainPc, dsn, db, routes, dbUp, sqlMode, tableExists, table,
                   autoInc, initSteps, ledger, acked>>

\* POST /albums, lines 111-116: db.Exec of the INSERT.  The statement is
\* rejected, or it runs on the server; when it has run, the connection may
\* still break before the driver reads the server's answer (ackLost), and
\* db.Exec then returns an error although the row is stored.
CreateAlbumExec(c) ==
    /\ mainPc = "listening"
    /\ req[c].pc = "exec"
    /\ LET r == req[c]
           ins == InsertRow(r.args)
       IN  IF ins.err # "nil"
           THEN /\ req' = [req EXCEPT ![c] =
                             [pc |-> "done", rid |-> r.rid, kind |-> "create",
                              form |-> r.form, err |-> ins.err,
                              resp |-> JSON(500, ErrorBody("Failed to insert album"))]]
                /\ UNCHANGED <<table, autoInc, ledger>>
           ELSE /\ table' = (autoInc :> ins.row) @@ table
                /\ autoInc' = NextAutoInc(autoInc)
                /\ ledger' = (autoInc :> [rid |-> r.rid, row |-> ins.row]) @@ ledger
                /\ \E ackLost \in BOOLEAN :
                     req' = [req EXCEPT ![c] =
                               IF ackLost
                               THEN [pc |-> "done", rid |-> r.rid, kind |-> "create",
                                     form |-> r.form, err |-> "conn",
                                     resp |-> JSON(500, ErrorBody("Failed to insert album"))]
                               ELSE [pc |-> "lastid", rid |-> r.rid, kind |-> "create",
                                     form |-> r.form, result |-> [insertId |-> autoInc]]]
    /\ UNCHANGED <<mainPc, dsn, db, routes, dbUp, sqlMode, tableExists, served,
                   initSteps, acked>>

\* POST /albums, lines 118-124: result.LastInsertId() and the response
CreateAlbumRespond(c) ==
    /\ mainPc = "listening"
    /\ req[c].pc = "lastid"
    /\ \E idErr \in BOOLEAN :
         LET r == req[c]
             albumID == LastInsertId(r.result)
         IN  IF idErr
             THEN /\ req' = [req EXCEPT ![c] =
                               [pc |-> "done", rid |-> r.rid, kind |-> "create",
                                form |-> r.form, err |-> "lastid",
                                resp |-> JSON(500, ErrorBody("Failed to retrieve album ID"))]]
                  /\ UNCHANGED acked
             ELSE /\ req' = [req EXCEPT ![c] =
                               [pc |-> "done", rid |-> r.rid, kind |-> "create",
                                form |-> r.form, err |-> "nil",
                                resp |-> JSON(201, [AlbumID |-> albumID])]]
                  /\ acked' = acked \cup {[rid |-> r.rid, id |-> albumID, form |-> r.form]}
    /\ UNCHANGED <<mainPc, dsn, db, routes, dbUp, sqlMode, tableExists, table,
                   autoInc, served, initSteps, ledger>>

\* GET /albums/:id (lines 128-147)
GetAlbum(c, param) ==
    /\ Accepts(c, "GET /albums/:id")
    /\ LET a == Atoi(param)
           q == QueryRow(a.val)
       IN  req' = [req EXCEPT ![c] =
                     IF a.err
                     THEN [pc |-> "done", rid |-> served + 1, kind |-> "get",
                           param |-> param, err |-> "nil",
                           resp |-> JSON(400, ErrorBody("Invalid album ID"))]
                     ELSE [pc |-> "done", rid |-> served + 1, kind |-> "get",
                           param |-> param, err |-> q.err,
                           resp |-> GetAlbumResponse(q)]]
    /\ served' = served + 1
    /\ UNCHANGED <<mainPc, dsn, db, routes, dbUp, sqlMode, tableExists, table,
                   autoInc, initSteps, ledger, acked>>

Next ==
    \/ InitDBOpen
    \/ InitDBPing
    \/ InitDBCreateTable
    \/ MainBindRoutes
    \/ MainRun
    \/ MainReturn
    \/ DatabaseFails
    \/ DatabaseRecovers
    \/ \E c \in Conns : Health(c)
    \/ \E c \in Conns, form \in CreateForms : CreateAlbumBegin(c, form)
    \/ \E c \in Conns : CreateAlbumExec(c)
    \/ \E c \in Conns : CreateAlbumRespond(c)
    \/ \E c \in Conns, param \in IdParams : GetAlbum(c, param)

Spec == Init /\ [][Next]_vars

-----------------------------------------------------------------------------
(* Vocabulary of the properties *)

AllInitSteps == {"dsn", "open", "ping", "schema"}

Answered(c, kind) == req[c].pc = "done" /\ req[c].kind = kind

\* connection c receives its response in this step
Responds(c, kind) ==
    /\ req'[c] # req[c]
    /\ req'[c].pc = "done"
    /\ req'[c].kind = kind

IsInteger(s) == ~Atoi(s).err

ImagePresent(form) == "image" \in DOMAIN form.files

ImageReadable(form) ==
    ImagePresent(form) /\ form.files["image"].openOk /\ form.files["image"].readOk

\* a creation request with a malformed form, a missing or empty artist, title
\* or year, a year that is non-numeric or <= 0, or no image part
CreateInputError(form) ==
    \/ ~form.parseOk
    \/ \E k \in {"artist", "title", "year"} :
         k \notin DOMAIN form.values \/ form.values[k] = <<>>
    \/ ~IsInteger(form.values["year"])
    \/ Atoi(form.values["year"]).val <= 0
    \/ ~ImagePresent(form)

\* a creation request as section 8 of the specification calls valid
ValidCreate(form) ==
    /\ ~CreateInputError(form)
    /\ ImageReadable(form)
    /\ form.files["image"].bytes # <<>>

\* the ids of the rows the INSERT of request rid wrote
RowsOf(rid) == {id \in DOMAIN ledger : ledger[id].rid = rid}

StorageFault(e) == e \in {"conn", "lastid"}

-----------------------------------------------------------------------------
(* C1 *)

\* C1: every valid creation request (non-empty artist and title, positive
\* integer year, non-empty image) that meets no connection failure is answered
\* 201 with a positive AlbumID, and a lookup of an id answered earlier returns
\* 200 with exactly the submitted artist, title, year and image and that id.
C1_RoundTrip ==
    [][\A c \in Conns :
         /\ Responds(c, "create") /\ ValidCreate(req'[c].form)
              /\ ~StorageFault(req'[c].err)
            => /\ req'[c].resp.status = 201
               /\ req'[c].resp.body.AlbumID > 0
         /\ Responds(c, "get") /\ IsInteger(req'[c].param) /\ ~StorageFault(req'[c].err)
            => \A a \in acked :
                 a.id = Atoi(req'[c].param).val /\ ValidCreate(a.form)
                 => /\ req'[c].resp.status = 200
                    /\ req'[c].resp.body.id = a.id
                    /\ req'[c].resp.body.artist = a.form.values["artist"]
                    /\ req'[c].resp.body.title = a.form.values["title"]
                    /\ req'[c].resp.body.year = Atoi(a.form.values["year"]).val
                    /\ "image" \in DOMAIN req'[c].resp.body
                    /\ Base64Decode(req'[c].resp.body.image) = a.form.files["image"].bytes
      ]_vars

-----------------------------------------------------------------------------
(* C2 *)

\* C2: a creation request with an input error and a lookup whose id is not an
\* integer are answered 400, and the request that is answered 400 is handled
\* in one step that leaves the table, the id counter and the rows ever
\* written as they were.
C2_InputErrorsAre400 ==
    /\ [](\A c \in Conns :
            /\ Answered(c, "create") /\ CreateInputError(req[c].form)
               => req[c].resp.status = 400
            /\ Answered(c, "get") /\ ~IsInteger(req[c].param)
               => req[c].resp.status = 400
            /\ req[c].pc \in {"exec", "lastid"} => ~CreateInputError(req[c].form))
    /\ [][\A c \in Conns :
            (Responds(c, "create") \/ Responds(c, "get")) /\ req'[c].resp.status = 400
            => /\ req[c].pc \in {"idle", "done"}
               /\ table' = table
               /\ autoInc' = autoInc
               /\ ledger' = ledger
               /\ RowsOf(req'[c].rid) = {}
       ]_vars

C2_Witness ==
    \E c, d \in Conns :
        /\ Answered(c, "create")
        /\ "year" \in DOMAIN req[c].form.values
        /\ req[c].form.values["year"] = <<"0">>
        /\ req[c].resp.status = 400
        /\ Answered(d, "create")
        /\ req[d].resp.status = 201
        /\ req[d].rid < req[c].rid
        /\ DOMAIN table = {1}

-----------------------------------------------------------------------------
(* C3 *)

\* C3: under any interleaving of creates, the id answered to a request is the
\* id of the one row that request wrote, no two answers carry the same id, a
\* request writes at most one row, and an id once written is never given to
\* another row nor changed.
C3_IdsUniqueAndOwn ==
    /\ [](/\ \A a \in acked :
                a.id \in DOMAIN ledger /\ ledger[a.id].rid = a.rid
          /\ \A a, b \in acked : a.id = b.id => a.rid = b.rid
          /\ \A c \in Conns :
                Answered(c, "create") /\ req[c].resp.status = 201
                => RowsOf(req[c].rid) = {req[c].resp.body.AlbumID}
          /\ \A i, j \in DOMAIN ledger : ledger[i].rid = ledger[j].rid => i = j
          /\ \A i \in DOMAIN ledger : 0 < i /\ i < autoInc /\ i \in DOMAIN table)
    /\ [][\A i \in DOMAIN ledger :
            i \in DOMAIN ledger' /\ ledger'[i] = ledger[i]]_vars

\* two creates ran concurrently: the one accepted first was given the later id
C3_Witness ==
    \E c, d \in Conns :
        /\ Answered(c, "create") /\ req[c].resp.status = 201
        /\ Answered(d, "create") /\ req[d].resp.status = 201
        /\ req[c].rid < req[d].rid
        /\ req[c].resp.body.AlbumID > req[d].resp.body.AlbumID

-----------------------------------------------------------------------------
(* C4 *)

\* C4: every row of Albums has a non-empty artist, a non-empty title, a
\* positive year and a non-empty image.
C4_RowsComplete ==
    \A id \in DOMAIN table :
        /\ table[id].artist # <<>>
        /\ table[id].title # <<>>
        /\ table[id].year > 0
        /\ table[id].image # <<>>

-----------------------------------------------------------------------------
(* C5 *)

\* C5: a lookup by an integer id is answered 500 when the query fails, 404
\* "Album not found" when the query runs and the id was never given to a row
\* (zero and negative ids included), and never 404 when the id was given.
C5_NotFoundIs404 ==
    [][\A c \in Conns :
         Responds(c, "get") /\ IsInteger(req'[c].param)
         => LET id == Atoi(req'[c].param).val
            IN  /\ req'[c].err = "conn" => req'[c].resp.status = 500
                /\ req'[c].err # "conn" /\ id \notin DOMAIN ledger
                   => req'[c].resp = [status |-> 404,
                                      body |-> [error |-> "Album not found"]]
                /\ id \in DOMAIN ledger => req'[c].resp.status # 404
                /\ req'[c].err = "conn" <=> ~dbUp
      ]_vars

C5_Witness ==
    \E c, d \in Conns :
        /\ Answered(c, "get") /\ req[c].param = <<"-", "1">>
        /\ req[c].resp.status = 404
        /\ Answered(d, "get") /\ req[d].param = <<"2">>
        /\ req[d].resp.status = 500

-----------------------------------------------------------------------------
(* C6 *)

\* C6 as stated: a creation request whose image part is present but cannot be
\* opened or fully read is answered with a client error (4xx), and no insert
\* is executed for it.
C6_UnreadableImageIsClientError ==
    \A c \in Conns :
        Answered(c, "create") /\ ImagePresent(req[c].form)
            /\ ~ImageReadable(req[c].form)
        => /\ req[c].resp.status \in 400..499
           /\ RowsOf(req[c].rid) = {}

\* C6 as amended: when the form, artist, title and year pass their checks and
\* the image part is present but cannot be opened or fully read, the answer
\* is 500 (a server error) with the image-processing message, and no insert
\* is executed for the request.
C6_UnreadableImageIs500 ==
    \A c \in Conns :
        /\ Answered(c, "create") /\ ~CreateInputError(req[c].form)
             /\ ~ImageReadable(req[c].form)
           => /\ req[c].resp.status = 500
              /\ req[c].resp.body.error \in
                   {"Failed to process image file", "Failed to read image file"}
              /\ req[c].err = "nil"
              /\ RowsOf(req[c].rid) = {}
        /\ req[c].pc \in {"exec", "lastid"} => ImageReadable(req[c].form)

C6_Witness ==
    \E c \in Conns :
        /\ Answered(c, "create")
        /\ ImagePresent(req[c].form)
        /\ req[c].form.files["image"].openOk
        /\ ~req[c].form.files["image"].readOk
        /\ req[c].resp.status = 500
        /\ table # <<>>

-----------------------------------------------------------------------------
(* C7 *)

\* C7: every answered create is either a 201 with exactly one new row, or
\* another status with no new row.
C7_AllOrNothing ==
    \A c \in Conns :
        Answered(c, "create")
        => \/ req[c].resp.status = 201 /\ Cardinality(RowsOf(req[c].rid)) = 1
           \/ req[c].resp.status # 201 /\ RowsOf(req[c].rid) = {}

-----------------------------------------------------------------------------
(* C8 *)

\* C8: a request is accepted and routes are bound only after DB_DSN was read,
\* the handle opened, the ping answered and the table created; when any of
\* these fails the process is in its fatal exit with no route bound and no
\* request ever accepted.
C8_ServeOnlyAfterInit ==
    /\ (served > 0 \/ routes # {} \/ \E c \in Conns : req[c].pc # "idle")
       => /\ initSteps = AllInitSteps
          /\ dsn # <<>>
          /\ tableExists
    /\ mainPc = "fatal" => routes = {} /\ served = 0
    /\ dsn = <<>> => mainPc \in {"initDB", "fatal"} /\ routes = {} /\ served = 0
    /\ mainPc \in {"routes", "run", "listening", "exited"} => initSteps = AllInitSteps
    /\ mainPc = "schema" => initSteps = {"dsn", "open", "ping"}
    /\ mainPc = "ping" => initSteps = {"dsn", "open"}

C8_Witness ==
    /\ served > 0
    /\ mainPc = "listening"
    /\ \E c \in Conns : req[c].pc = "done"

-----------------------------------------------------------------------------
(* C9 *)

\* C9: GET /health is answered 200 {"status":"ok"} whether the database
\* answers or not and whatever the table holds, and leaves the database as
\* it was.
C9_HealthAlwaysOk ==
    [][\A c \in Conns :
         Responds(c, "health")
         => /\ req'[c].resp = [status |-> 200, body |-> [status |-> "ok"]]
            /\ table' = table
            /\ autoInc' = autoInc
            /\ tableExists' = tableExists
            /\ dbUp' = dbUp
      ]_vars

C9_Witness ==
    \E c, d \in Conns :
        /\ Answered(c, "create") /\ req[c].err = "conn"
        /\ Answered(d, "health") /\ req[d].rid > req[c].rid
        /\ ~dbUp
        /\ req[d].resp.status = 200

-----------------------------------------------------------------------------
(* C10 *)

\* C10: no step changes or removes a row, a step adds at most one row, a
\* lookup or a health check leaves the table as it was, and every lookup
\* answered 200 carries the row exactly as the INSERT first wrote it.
C10_RowsImmutable ==
    [][/\ \A id \in DOMAIN table :
             id \in DOMAIN table' /\ table'[id] = table[id]
       /\ Cardinality(DOMAIN table') <= Cardinality(DOMAIN table) + 1
       /\ \A c \in Conns :
             /\ Responds(c, "get") \/ Responds(c, "health") => table' = table
             /\ Responds(c, "get") /\ req'[c].resp.status = 200
                => LET id == req'[c].resp.body.id
                   IN  /\ id \in DOMAIN ledger
                       /\ id = Atoi(req'[c].param).val
                       /\ req'[c].resp.body.artist = ledger[id].row.artist
                       /\ req'[c].resp.body.title = ledger[id].row.title
                       /\ req'[c].resp.body.year = ledger[id].row.year
                       /\ IF ledger[id].row.image = <<>>
                          THEN "image" \notin DOMAIN req'[c].resp.body
                          ELSE Base64Decode(req'[c].resp.body.image)
                                 = ledger[id].row.image
      ]_vars

C10_Witness ==
    \E c \in Conns :
        /\ Answered(c, "get")
        /\ req[c].resp.status = 200
        /\ \E a \in acked : a.id = req[c].resp.body.id /\ a.rid < req[c].rid

====
